---- MODULE Spec2Model ----
(***************************************************************************)
(* Model of src/src/interfaces/auto_connect_manager.py: the                *)
(* AutoConnectManager, its ManagedConnection records and the asyncio tasks *)
(* it creates.                                                             *)
(*                                                                         *)
(* asyncio runs one coroutine at a time, so a step of the model is either  *)
(* one synchronous call into the manager (add/remove/enable/disable/pause, *)
(* start, stop, _on_ble_event) or one task running from the suspension     *)
(* point it waits at (task creation, the awaited connect, a sleep) to its  *)
(* next suspension point.  task.cancel() on a suspended task ends it at    *)
(* that suspension point (CancelledError, 241-242), so a cancelled task is *)
(* simply removed.                                                         *)
(*                                                                         *)
(* Time is a discrete clock in seconds, and every time the program stores  *)
(* is kept relative to the clock: pause_until and a task's wake-up or      *)
(* timeout deadline as the seconds still to go (0 once reached),           *)
(* last_activity as the seconds since (capped where the health check can   *)
(* no longer tell the difference).  Tick advances the clock by shifting    *)
(* them all.  The code only ever compares such a time with now, so this    *)
(* keeps every comparison exact.  Floats of the configuration are modelled *)
(* by integers.                                                            *)
(*                                                                         *)
(* ManagedConnection objects have identity: a task keeps the object it     *)
(* read at line 209 and an attempt the one it read at line 249, while      *)
(* add_managed_device (145) stores a new object.  Objects live in heap.    *)
(* Not modelled: connection_start_time, average_connection_time,           *)
(* connection_uptime, last_connected and last_failure, which no control    *)
(* flow reads.                                                             *)
(***************************************************************************)
EXTENDS Integers, Sequences, FiniteSets, TLC

\* ------------------------------------------------------------------ bounds
\* MaxAttempts caps total_attempts of an object.  MaxObjects caps how many
\* ManagedConnection objects and tasks missing from connection_tasks are alive
\* at once in Spec; SpecWide allows one more.  From 2 on, an address can have
\* a replaced object still held by its task, or a second task beside the one
\* in connection_tasks.
MaxAttempts == 2
MaxObjects == 1
\* SpecDelay, which runs calculate_retry_delay alone, takes retry_count up
\* to MaxRetryCount and the two delays of the configuration up to MaxDelay.
MaxRetryCount == 10
MaxDelay == 10

Addresses == {"a1"}
RecIds == 1..(MaxObjects + 1)
None == -1
NoRec == 0

\* Hard-coded sleeps of _connection_manager.
IdleSleep == 1
ErrorSleep == 5

\* ConnectionConfig values (dataclass, 33-44), scaled to the clock.
\* The first is the manager's default_config; like the source's defaults
\* (5 and 3) it has max_retries > max_consecutive_failures.
DefaultConfig ==
    [max_retries |-> 3, initial_retry_delay |-> 1, max_retry_delay |-> 2,
     retry_strategy |-> "exponential_backoff", connection_timeout |-> 1,
     stability_check_interval |-> 1, reconnect_on_failure |-> TRUE,
     health_check_interval |-> 1, max_consecutive_failures |-> 2]
CustomConfig ==
    [max_retries |-> 1, initial_retry_delay |-> 1, max_retry_delay |-> 2,
     retry_strategy |-> "linear_backoff", connection_timeout |-> 1,
     stability_check_interval |-> 1, reconnect_on_failure |-> FALSE,
     health_check_interval |-> 1, max_consecutive_failures |-> 3]
\* The config argument of add_managed_device: none, or a configuration.
NoConfig == [given |-> FALSE]
Configs == {NoConfig, CustomConfig}

PauseDurations == {0, 1}
PacketTypes == {"connection", "disconnection", "data"}
Outcomes == {"true", "false", "timeout", "error"}

VARIABLES
    running,              \* AutoConnectManager._running
    managed_connections,  \* address -> id of its ManagedConnection, or NoRec
    heap,                 \* id -> ManagedConnection object
    connection_tasks,     \* address -> the task stored in connection_tasks
    orphans,              \* address -> live tasks no longer in connection_tasks
    stability_monitor_task,  \* the task stored in stability_monitor_task
    stability_orphans,    \* live _stability_monitor tasks no longer stored
    event_callbacks,      \* the registered subscribers, in registration order
    received,             \* subscriber -> the events the last step called it with
    emit_raised           \* a subscriber's exception left _emit_event in the last step

vars == <<running, managed_connections, heap, connection_tasks, orphans,
          stability_monitor_task, stability_orphans, event_callbacks, received,
          emit_raised>>

Min(x, y) == IF x < y THEN x ELSE y
Max(x, y) == IF x > y THEN x ELSE y

\* last_activity is read at 312-314 only, while the state is Connected, and
\* every assignment of Connected (265-267, 360-364) comes with
\* last_activity = now.  So the age is kept exactly up to the first value
\* that is stale (314) while Connected, and as "earlier" (1) otherwise.
AgeCap(c) == IF c.state = "connected"
             THEN 1 + 2 * c.config.health_check_interval ELSE 1

\* ------------------------------------------------------- ManagedConnection
ManagedConnection(cfg) ==
    [state |-> "disconnected", retry_count |-> 0, is_enabled |-> TRUE,
     pause_until |-> None, last_activity |-> None, config |-> cfg,
     total_attempts |-> 0, successful_connections |-> 0,
     failed_connections |-> 0, consecutive_failures |-> 0,
     stability_score |-> <<0, 1>>]

\* calculate_retry_delay whose Linear branch multiplies by retry_count (78).
calculate_retry_delay_linear_from_zero(c) ==
    LET cfg == c.config
        delay == CASE cfg.retry_strategy = "exponential_backoff" ->
                        cfg.initial_retry_delay * (2 ^ c.retry_count)
                   [] cfg.retry_strategy = "linear_backoff" ->
                        cfg.initial_retry_delay * c.retry_count
                   [] OTHER -> cfg.initial_retry_delay
    IN  Min(delay, cfg.max_retry_delay)

\* calculate_retry_delay that returns delay without the min of line 83.
calculate_retry_delay_uncapped(c) ==
    LET cfg == c.config
    IN  CASE cfg.retry_strategy = "exponential_backoff" ->
                cfg.initial_retry_delay * (2 ^ c.retry_count)
          [] cfg.retry_strategy = "linear_backoff" ->
                cfg.initial_retry_delay * (1 + c.retry_count)
          [] OTHER -> cfg.initial_retry_delay

\* calculate_retry_delay whose last branch is taken for Linear only, so
\* that Fixed gets the Linear delay.
calculate_retry_delay_fixed_grows(c) ==
    LET cfg == c.config
        delay == CASE cfg.retry_strategy = "exponential_backoff" ->
                        cfg.initial_retry_delay * (2 ^ c.retry_count)
                   [] cfg.retry_strategy = "fixed_interval" ->
                        cfg.initial_retry_delay * (1 + c.retry_count)
                   [] OTHER -> cfg.initial_retry_delay
    IN  Min(delay, cfg.max_retry_delay)

calculate_retry_delay(c) ==
    LET cfg == c.config
        delay == CASE cfg.retry_strategy = "exponential_backoff" ->
                        cfg.initial_retry_delay * (2 ^ c.retry_count)
                   [] cfg.retry_strategy = "linear_backoff" ->
                        cfg.initial_retry_delay * (1 + c.retry_count)
                   [] OTHER -> cfg.initial_retry_delay
    IN  Min(delay, cfg.max_retry_delay)

\* update_metrics that forgets failed_connections on a failure.
update_metrics_drops_failed(c, success) ==
    LET total == c.total_attempts + 1 IN
    IF success
    THEN [c EXCEPT !.total_attempts = total,
                   !.successful_connections = @ + 1,
                   !.consecutive_failures = 0,
                   !.stability_score = <<c.successful_connections + 1, total>>]
    ELSE [c EXCEPT !.total_attempts = total,
                   !.consecutive_failures = @ + 1,
                   !.stability_score = <<c.successful_connections, total>>]

\* update_metrics whose failure branch leaves consecutive_failures alone
\* (100 missing).
update_metrics_streak_stuck(c, success) ==
    LET total == c.total_attempts + 1 IN
    IF success
    THEN [c EXCEPT !.total_attempts = total,
                   !.successful_connections = @ + 1,
                   !.consecutive_failures = 0,
                   !.stability_score = <<c.successful_connections + 1, total>>]
    ELSE [c EXCEPT !.total_attempts = total,
                   !.failed_connections = @ + 1,
                   !.stability_score = <<c.successful_connections, total>>]

\* update_metrics that computes the score (103) before it counts the
\* success (90).
update_metrics_score_stale(c, success) ==
    LET total == c.total_attempts + 1 IN
    IF success
    THEN [c EXCEPT !.total_attempts = total,
                   !.successful_connections = @ + 1,
                   !.consecutive_failures = 0,
                   !.stability_score = <<c.successful_connections, total>>]
    ELSE [c EXCEPT !.total_attempts = total,
                   !.failed_connections = @ + 1,
                   !.consecutive_failures = @ + 1,
                   !.stability_score = <<c.successful_connections, total>>]

\* stability_score is the exact quotient, kept as <<numerator, denominator>>.
update_metrics(c, success) ==
    LET total == c.total_attempts + 1 IN
    IF success
    THEN [c EXCEPT !.total_attempts = total,
                   !.successful_connections = @ + 1,
                   !.consecutive_failures = 0,
                   !.stability_score = <<c.successful_connections + 1, total>>]
    ELSE [c EXCEPT !.total_attempts = total,
                   !.failed_connections = @ + 1,
                   !.consecutive_failures = @ + 1,
                   !.stability_score = <<c.successful_connections, total>>]

\* should_retry with > for >= at line 113.
should_retry_off_by_one(c) ==
    IF ~c.is_enabled THEN FALSE
    ELSE IF c.pause_until # None /\ 0 < c.pause_until THEN FALSE
    ELSE IF c.retry_count > c.config.max_retries THEN FALSE
    ELSE IF c.consecutive_failures >= c.config.max_consecutive_failures THEN FALSE
    ELSE TRUE

\* should_retry without its test of consecutive_failures (116-117).
should_retry_ignores_streak(c) ==
    IF ~c.is_enabled THEN FALSE
    ELSE IF c.pause_until # None /\ 0 < c.pause_until THEN FALSE
    ELSE IF c.retry_count >= c.config.max_retries THEN FALSE
    ELSE TRUE

\* datetime.now() < pause_until: seconds are still to go.
should_retry(c) ==
    IF ~c.is_enabled THEN FALSE
    ELSE IF c.pause_until # None /\ 0 < c.pause_until THEN FALSE
    ELSE IF c.retry_count >= c.config.max_retries THEN FALSE
    ELSE IF c.consecutive_failures >= c.config.max_consecutive_failures THEN FALSE
    ELSE TRUE

\* pause that sets the state and forgets the deadline (123 missing).
pause_without_deadline(c, duration) ==
    [c EXCEPT !.state = "paused"]

\* pause that also starts the retries anew.
pause_resets_retry_count(c, duration) ==
    [c EXCEPT !.pause_until = duration, !.state = "paused", !.retry_count = 0]

pause(c, duration) ==
    [c EXCEPT !.pause_until = duration, !.state = "paused"]

\* ------------------------------------------------------------------- tasks
NoTask == [pc |-> "none", conn |-> NoRec, aconn |-> NoRec, wake |-> 0]
DoneTask == [pc |-> "done", conn |-> NoRec, aconn |-> NoRec, wake |-> 0]
NewTask == [pc |-> "start", conn |-> NoRec, aconn |-> NoRec, wake |-> 0]
Live(t) == t.pc \notin {"none", "done"}

Event(a, type, rc, delay) ==
    [address |-> a, type |-> type, retry_count |-> rc, delay |-> delay]

\* A subscriber either returns from its call or raises an Exception.
CallbackKinds == {"returns", "raises"}

RECURSIVE emit_event(_, _, _)

\* _emit_event that calls each callback twice with the event.
emit_event_twice(out, e, k) ==
    IF k > Len(event_callbacks) THEN out
    ELSE LET called == [out EXCEPT !.received[k] = Append(Append(@, e), e)] IN
         emit_event(called, e, k + 1)

\* _emit_event without the try of 382-385: the exception of callback k
\* leaves the loop and _emit_event.
emit_event_unguarded(out, e, k) ==
    IF k > Len(event_callbacks) THEN out
    ELSE LET called == [out EXCEPT !.received[k] = Append(@, e)] IN
         IF event_callbacks[k] = "raises"
         THEN [called EXCEPT !.raised = TRUE]
         ELSE emit_event(called, e, k + 1)

\* _emit_event (379-385) from callback k on: the callback is called with the
\* event (383); if it raises, the exception is caught and printed (384-385);
\* either way the loop goes on with the next callback.
emit_event(out, e, k) ==
    IF k > Len(event_callbacks) THEN out
    ELSE LET called == [out EXCEPT !.received[k] = Append(@, e)] IN
         IF event_callbacks[k] = "raises"
         THEN emit_event(called, e, k + 1)
         ELSE emit_event(called, e, k + 1)

\* The _emit_event calls of one step, in the order the step makes them.
RECURSIVE emit_each(_, _)
emit_each(out, evs) ==
    IF evs = <<>> THEN out
    ELSE emit_each(emit_event(out, Head(evs), 1), Tail(evs))

emit_events(evs) ==
    emit_each([received |-> [i \in 1..Len(event_callbacks) |-> <<>>],
               raised |-> FALSE], evs)

\* What the subscribers were called with during the step.
Emitted(out) ==
    /\ received' = out.received
    /\ emit_raised' = out.raised

Sleeping(h, c, d, ev) ==
    [heap |-> h,
     task |-> [pc |-> "sleep", conn |-> c, aconn |-> NoRec, wake |-> d],
     ev |-> ev]

\* _attempt_connection up to its await (247-260).  The record is looked up
\* again by address (249); a missing address raises KeyError, which
\* _connection_manager catches at 243-245.
attempt_connection_begin(h, c, a, ev) ==
    IF managed_connections[a] = NoRec
    THEN Sleeping(h, c, ErrorSleep, Append(ev, Event(a, "manager_error", None, None)))
    ELSE LET r == managed_connections[a] IN
         [heap |-> [h EXCEPT ![r].state = "connecting"],
          task |-> [pc |-> "connecting", conn |-> c, aconn |-> r,
                    wake |-> h[r].config.connection_timeout],
          ev |-> Append(ev, Event(a, "connection_attempt", h[r].retry_count, None))]

\* _monitor_connection_health with >= for > at 314.
HealthStale_at_twice(conn) ==
    /\ conn.last_activity # None
    /\ conn.last_activity >= conn.config.health_check_interval * 2

\* _monitor_connection_health (304-323): the stale branch returns without
\* awaiting, the other sleeps health_check_interval.
HealthStale(conn) ==
    /\ conn.last_activity # None
    /\ conn.last_activity > conn.config.health_check_interval * 2

RECURSIVE connection_manager_loop(_, _, _, _)

\* The loop with "while connection.is_enabled": _running is not tested.
connection_manager_loop_ignores_running(h, c, a, ev) ==
    LET conn == h[c] IN
    IF ~conn.is_enabled
    THEN [heap |-> h, task |-> DoneTask, ev |-> ev]
    ELSE CASE conn.state = "disconnected" ->
                IF should_retry(conn)
                THEN attempt_connection_begin(h, c, a, ev)
                ELSE Sleeping(h, c, conn.config.stability_check_interval, ev)
           [] conn.state = "connected" ->
                IF HealthStale(conn)
                THEN connection_manager_loop(
                         [h EXCEPT ![c].state = "disconnected"], c, a,
                         Append(ev, Event(a, "connection_stale", None, None)))
                ELSE Sleeping(h, c, conn.config.health_check_interval, ev)
           [] conn.state = "failed" ->
                [heap |-> h,
                 task |-> [pc |-> "sleep_failed", conn |-> c, aconn |-> NoRec,
                           wake |-> calculate_retry_delay(conn)],
                 ev |-> ev]
           [] conn.state = "paused" ->
                IF conn.pause_until # None /\ conn.pause_until = 0
                THEN connection_manager_loop(
                         [h EXCEPT ![c].pause_until = None,
                                   ![c].state = "disconnected"], c, a, ev)
                ELSE Sleeping(h, c, IdleSleep, ev)
           [] OTHER -> Sleeping(h, c, IdleSleep, ev)

\* The while loop of _connection_manager (211-245), run from the top of an
\* iteration to the next await.  c is the object the task read at 209.
connection_manager_loop(h, c, a, ev) ==
    LET conn == h[c] IN
    IF ~(running /\ conn.is_enabled)
    THEN [heap |-> h, task |-> DoneTask, ev |-> ev]
    ELSE CASE conn.state = "disconnected" ->
                IF should_retry(conn)
                THEN attempt_connection_begin(h, c, a, ev)
                ELSE Sleeping(h, c, conn.config.stability_check_interval, ev)
           [] conn.state = "connected" ->
                IF HealthStale(conn)
                THEN connection_manager_loop(
                         [h EXCEPT ![c].state = "disconnected"], c, a,
                         Append(ev, Event(a, "connection_stale", None, None)))
                ELSE Sleeping(h, c, conn.config.health_check_interval, ev)
           [] conn.state = "failed" ->
                [heap |-> h,
                 task |-> [pc |-> "sleep_failed", conn |-> c, aconn |-> NoRec,
                           wake |-> calculate_retry_delay(conn)],
                 ev |-> ev]
           [] conn.state = "paused" ->
                IF conn.pause_until # None /\ conn.pause_until = 0
                THEN connection_manager_loop(
                         [h EXCEPT ![c].pause_until = None,
                                   ![c].state = "disconnected"], c, a, ev)
                ELSE Sleeping(h, c, IdleSleep, ev)
           [] OTHER -> Sleeping(h, c, IdleSleep, ev)

\* _attempt_connection that keeps retry_count on success (266 missing).
attempt_connection_end_keeps_retries(h, r, a, outcome) ==
    IF outcome = "true"
    THEN LET c1 == update_metrics([h[r] EXCEPT !.state = "connected",
                                               !.last_activity = 0], TRUE)
         IN [heap |-> [h EXCEPT ![r] = c1],
             ev |-> <<Event(a, "connection_success", c1.retry_count, None)>>]
    ELSE LET c1 == update_metrics([h[r] EXCEPT !.state = "failed",
                                               !.retry_count = @ + 1], FALSE)
             type == CASE outcome = "false" -> "connection_failed"
                       [] outcome = "timeout" -> "connection_timeout"
                       [] OTHER -> "connection_error"
             delay == IF outcome = "false" THEN calculate_retry_delay(c1) ELSE None
         IN [heap |-> [h EXCEPT ![r] = c1],
             ev |-> <<Event(a, type, c1.retry_count, delay)>>]

\* _attempt_connection whose timeout handler does not count the retry
\* (286 missing).
attempt_connection_end_timeout_uncounted(h, r, a, outcome) ==
    IF outcome = "true"
    THEN LET c1 == update_metrics([h[r] EXCEPT !.state = "connected",
                                               !.retry_count = 0,
                                               !.last_activity = 0], TRUE)
         IN [heap |-> [h EXCEPT ![r] = c1],
             ev |-> <<Event(a, "connection_success", c1.retry_count, None)>>]
    ELSE LET c1 == update_metrics([h[r] EXCEPT !.state = "failed",
                                               !.retry_count =
                                                   IF outcome = "timeout"
                                                   THEN @ ELSE @ + 1], FALSE)
             type == CASE outcome = "false" -> "connection_failed"
                       [] outcome = "timeout" -> "connection_timeout"
                       [] OTHER -> "connection_error"
             delay == IF outcome = "false" THEN calculate_retry_delay(c1) ELSE None
         IN [heap |-> [h EXCEPT ![r] = c1],
             ev |-> <<Event(a, type, c1.retry_count, delay)>>]

\* _attempt_connection without the handler of 284-292: the TimeoutError of
\* wait_for is handled at 294-302 and reported as connection_error.
attempt_connection_end_timeout_as_error(h, r, a, outcome) ==
    IF outcome = "true"
    THEN LET c1 == update_metrics([h[r] EXCEPT !.state = "connected",
                                               !.retry_count = 0,
                                               !.last_activity = 0], TRUE)
         IN [heap |-> [h EXCEPT ![r] = c1],
             ev |-> <<Event(a, "connection_success", c1.retry_count, None)>>]
    ELSE LET c1 == update_metrics([h[r] EXCEPT !.state = "failed",
                                               !.retry_count = @ + 1], FALSE)
             type == CASE outcome = "false" -> "connection_failed"
                       [] OTHER -> "connection_error"
             delay == IF outcome = "false" THEN calculate_retry_delay(c1) ELSE None
         IN [heap |-> [h EXCEPT ![r] = c1],
             ev |-> <<Event(a, type, c1.retry_count, delay)>>]

\* _attempt_connection after the await (262-302), on the object read at 249.
attempt_connection_end(h, r, a, outcome) ==
    IF outcome = "true"
    THEN LET c1 == update_metrics([h[r] EXCEPT !.state = "connected",
                                               !.retry_count = 0,
                                               !.last_activity = 0], TRUE)
         IN [heap |-> [h EXCEPT ![r] = c1],
             ev |-> <<Event(a, "connection_success", c1.retry_count, None)>>]
    ELSE LET c1 == update_metrics([h[r] EXCEPT !.state = "failed",
                                               !.retry_count = @ + 1], FALSE)
             type == CASE outcome = "false" -> "connection_failed"
                       [] outcome = "timeout" -> "connection_timeout"
                       [] OTHER -> "connection_error"
             delay == IF outcome = "false" THEN calculate_retry_delay(c1) ELSE None
         IN [heap |-> [h EXCEPT ![r] = c1],
             ev |-> <<Event(a, type, c1.retry_count, delay)>>]

\* ------------------------------------------------------------ bookkeeping
TaskAt(a, i) == IF i = 0 THEN connection_tasks[a] ELSE orphans[a][i]
TaskIdx(a) == 0..Len(orphans[a])

DropAt(s, i) == [k \in 1..(Len(s) - 1) |-> IF k < i THEN s[k] ELSE s[k + 1]]

\* The tasks after task i of address a became t: a finished task stays in
\* connection_tasks (the dict keeps it), a finished orphan is gone.
TasksWith(a, i, t) ==
    IF i = 0
    THEN [ct |-> [connection_tasks EXCEPT ![a] = t], orph |-> orphans]
    ELSE [ct |-> connection_tasks,
          orph |-> [orphans EXCEPT ![a] =
                       IF Live(t) THEN [@ EXCEPT ![i] = t] ELSE DropAt(@, i)]]

\* Objects still referenced by the manager or by a task.
Referenced(mc, ct, orph) ==
    ({mc[a] : a \in DOMAIN mc}
     \cup {ct[a].conn : a \in DOMAIN ct} \cup {ct[a].aconn : a \in DOMAIN ct}
     \cup UNION {{orph[a][k].conn : k \in 1..Len(orph[a])} : a \in DOMAIN orph}
     \cup UNION {{orph[a][k].aconn : k \in 1..Len(orph[a])} : a \in DOMAIN orph})
    \ {NoRec}

\* The heap without the objects nothing references any more.  Of an object
\* that managed_connections no longer holds, the counters only
\* get_connection_status and the stability report read are cleared: nothing
\* can read them again.
Unmanaged(c) ==
    [c EXCEPT !.total_attempts = 0, !.successful_connections = 0,
              !.failed_connections = 0, !.stability_score = <<0, 1>>]

Aged(c) ==
    [c EXCEPT !.last_activity = IF @ = None THEN None ELSE Min(@, AgeCap(c))]

Collect(h, mc, ct, orph) ==
    [r \in (DOMAIN h) \cap Referenced(mc, ct, orph) |->
        IF r \in {mc[a] : a \in DOMAIN mc}
        THEN Aged(h[r]) ELSE Unmanaged(Aged(h[r]))]

AttemptsBounded(h, t) ==
    t.pc = "connecting" => h[t.aconn].total_attempts < MaxAttempts

RECURSIVE SumLen(_, _)
SumLen(orph, S) ==
    IF S = {} THEN 0
    ELSE LET a == CHOOSE x \in S : TRUE IN Len(orph[a]) + SumLen(orph, S \ {a})

ObjectsBounded(h, orph, limit) ==
    Cardinality(DOMAIN h) + SumLen(orph, DOMAIN orph) <= limit

\* ---------------------------------------------------------------- actions
Init ==
    /\ running = FALSE
    /\ managed_connections = [a \in Addresses |-> NoRec]
    /\ heap = <<>>
    /\ connection_tasks = [a \in Addresses |-> NoTask]
    /\ orphans = [a \in Addresses |-> <<>>]
    /\ stability_monitor_task = NoTask
    /\ stability_orphans = <<>>
    /\ event_callbacks = <<>>
    /\ received = <<>>
    /\ emit_raised = FALSE

\* add_managed_device that ignores its config argument.
device_config_always_default(config) == DefaultConfig

\* device_config = config or self.default_config (144)
device_config(config) == IF config = NoConfig THEN DefaultConfig ELSE config

\* add_managed_device (142-147)
\* Within one run every device is given the same configuration.
AddManagedDevice(a, config, limit) ==
    /\ RecIds \ DOMAIN heap # {}
    /\ \A x \in DOMAIN heap : heap[x].config = device_config(config)
    /\ LET r == CHOOSE x \in RecIds \ DOMAIN heap :
                    \A y \in RecIds \ DOMAIN heap : x <= y
           mc == [managed_connections EXCEPT ![a] = r]
           h == [x \in DOMAIN heap \cup {r} |->
                    IF x = r THEN ManagedConnection(device_config(config))
                    ELSE heap[x]]
       IN /\ managed_connections' = mc
          /\ heap' = Collect(h, mc, connection_tasks, orphans)
          /\ ObjectsBounded(heap', orphans, limit)
    /\ Emitted(emit_events(<<Event(a, "device_added", None, None)>>))
    /\ UNCHANGED <<stability_monitor_task, stability_orphans, event_callbacks, running, connection_tasks, orphans>>

\* remove_managed_device (149-158)
RemoveManagedDevice(a) ==
    /\ IF managed_connections[a] # NoRec
       THEN LET mc == [managed_connections EXCEPT ![a] = NoRec]
                ct == [connection_tasks EXCEPT ![a] = NoTask]
            IN /\ managed_connections' = mc
               /\ connection_tasks' = ct
               /\ heap' = Collect(heap, mc, ct, orphans)
               /\ Emitted(emit_events(<<Event(a, "device_removed", None, None)>>))
       ELSE /\ UNCHANGED <<managed_connections, connection_tasks, heap>>
            /\ Emitted(emit_events(<<>>))
    /\ UNCHANGED <<stability_monitor_task, stability_orphans, event_callbacks, running, orphans>>

\* enable_device (160-164)
EnableDevice(a) ==
    /\ IF managed_connections[a] # NoRec
       THEN /\ heap' = [heap EXCEPT ![managed_connections[a]].is_enabled = TRUE]
            /\ Emitted(emit_events(<<Event(a, "device_enabled", None, None)>>))
       ELSE /\ UNCHANGED heap
            /\ Emitted(emit_events(<<>>))
    /\ UNCHANGED <<stability_monitor_task, stability_orphans, event_callbacks, running, managed_connections, connection_tasks, orphans>>

\* disable_device (166-174)
DisableDevice(a) ==
    /\ IF managed_connections[a] # NoRec
       THEN LET ct == [connection_tasks EXCEPT ![a] = NoTask]
                h == [heap EXCEPT ![managed_connections[a]].is_enabled = FALSE]
            IN /\ connection_tasks' = ct
               /\ heap' = Collect(h, managed_connections, ct, orphans)
               /\ Emitted(emit_events(<<Event(a, "device_disabled", None, None)>>))
       ELSE /\ UNCHANGED <<heap, connection_tasks>>
            /\ Emitted(emit_events(<<>>))
    /\ UNCHANGED <<stability_monitor_task, stability_orphans, event_callbacks, running, managed_connections, orphans>>

\* pause_device (176-180)
PauseDevice(a, duration) ==
    /\ IF managed_connections[a] # NoRec
       THEN /\ heap' = [heap EXCEPT ![managed_connections[a]] = Aged(pause(@, duration))]
            /\ Emitted(emit_events(<<Event(a, "device_paused", None, None)>>))
       ELSE /\ UNCHANGED heap
            /\ Emitted(emit_events(<<>>))
    /\ UNCHANGED <<stability_monitor_task, stability_orphans, event_callbacks, running, managed_connections, connection_tasks, orphans>>

\* start (182-192): the tasks it creates replace the dict entries without
\* cancelling the tasks those entries held.
StartTasks(a) ==
    /\ managed_connections[a] # NoRec
    /\ heap[managed_connections[a]].is_enabled

Start(limit, monitor) ==
    /\ running' = TRUE
    /\ connection_tasks' = [a \in DOMAIN connection_tasks |->
          IF StartTasks(a) THEN NewTask ELSE connection_tasks[a]]
    /\ orphans' = [a \in DOMAIN orphans |->
          IF StartTasks(a) /\ Live(connection_tasks[a])
          THEN Append(orphans[a], connection_tasks[a]) ELSE orphans[a]]
    /\ heap' = Collect(heap, managed_connections, connection_tasks', orphans')
    /\ ObjectsBounded(heap', orphans', limit)
    /\ IF monitor
       THEN /\ stability_monitor_task' = NewTask
            /\ stability_orphans' =
                  IF Live(stability_monitor_task)
                  THEN Append(stability_orphans, stability_monitor_task)
                  ELSE stability_orphans
            /\ Len(stability_orphans') < limit
       ELSE UNCHANGED <<stability_monitor_task, stability_orphans>>
    /\ Emitted(emit_events(<<>>))
    /\ UNCHANGED <<event_callbacks, managed_connections>>

\* stop (194-205)
Stop ==
    /\ running' = FALSE
    /\ connection_tasks' = [a \in DOMAIN connection_tasks |-> NoTask]
    /\ heap' = Collect(heap, managed_connections, connection_tasks', orphans)
    /\ stability_monitor_task' = NoTask
    /\ Emitted(emit_events(<<>>))
    /\ UNCHANGED <<event_callbacks, managed_connections, orphans, stability_orphans>>

\* _on_ble_event (358-365) with the Connection branch keeping retry_count
on_ble_event_keeps_retry_count(c, packet_type) ==
    LET c0 == [c EXCEPT !.last_activity = 0]
    IN CASE packet_type = "connection" -> [c0 EXCEPT !.state = "connected"]
         [] packet_type = "disconnection" /\ c0.config.reconnect_on_failure ->
              [c0 EXCEPT !.state = "disconnected", !.retry_count = 0]
         [] OTHER -> c0

\* _on_ble_event whose Connection branch also clears consecutive_failures.
on_ble_event_resets_streak(c, packet_type) ==
    LET c0 == [c EXCEPT !.last_activity = 0]
    IN CASE packet_type = "connection" ->
              [c0 EXCEPT !.state = "connected", !.retry_count = 0,
                         !.consecutive_failures = 0]
         [] packet_type = "disconnection" /\ c0.config.reconnect_on_failure ->
              [c0 EXCEPT !.state = "disconnected", !.retry_count = 0]
         [] OTHER -> c0

\* _on_ble_event without line 360: last_activity is not set.
on_ble_event_without_activity(c, packet_type) ==
    CASE packet_type = "connection" ->
              [c EXCEPT !.state = "connected", !.retry_count = 0]
      [] packet_type = "disconnection" /\ c.config.reconnect_on_failure ->
              [c EXCEPT !.state = "disconnected", !.retry_count = 0]
      [] OTHER -> c

\* _on_ble_event (358-369): what a packet does to the managed connection
on_ble_event(c, packet_type) ==
    LET c0 == [c EXCEPT !.last_activity = 0]
    IN CASE packet_type = "connection" ->
              [c0 EXCEPT !.state = "connected", !.retry_count = 0]
         [] packet_type = "disconnection" /\ c0.config.reconnect_on_failure ->
              [c0 EXCEPT !.state = "disconnected", !.retry_count = 0]
         [] OTHER -> c0

\* _on_ble_event (354-373)
OnBleEvent(a, packet_type) ==
    /\ IF managed_connections[a] # NoRec
       THEN LET r == managed_connections[a]
                c0 == heap[r]
                c1 == on_ble_event(c0, packet_type)
                restart == /\ packet_type = "disconnection"
                           /\ c0.config.reconnect_on_failure
                           /\ connection_tasks[a] = NoTask
                           /\ c0.is_enabled
            IN /\ heap' = [heap EXCEPT ![r] = Aged(c1)]
               /\ connection_tasks' = IF restart
                                      THEN [connection_tasks EXCEPT ![a] = NewTask]
                                      ELSE connection_tasks
       ELSE UNCHANGED <<heap, connection_tasks>>
    /\ Emitted(emit_events(<<>>))
    /\ UNCHANGED <<stability_monitor_task, stability_orphans, event_callbacks, running, managed_connections, orphans>>

\* register_event_callback (375-377)
RegisterEventCallback(cb) ==
    /\ event_callbacks' = Append(event_callbacks, cb)
    /\ received' = [i \in 1..Len(event_callbacks') |-> <<>>]
    /\ emit_raised' = FALSE
    /\ UNCHANGED <<running, managed_connections, heap, connection_tasks,
                   orphans, stability_monitor_task, stability_orphans>>

\* A step of task i of address a that leaves result res = [heap, task, ev].
TaskStep(a, i, res) ==
    /\ AttemptsBounded(res.heap, res.task)
    /\ LET tw == TasksWith(a, i, res.task) IN
          /\ connection_tasks' = tw.ct
          /\ orphans' = tw.orph
          /\ heap' = Collect(res.heap, managed_connections, tw.ct, tw.orph)
    /\ Emitted(emit_events(res.ev))
    /\ UNCHANGED <<stability_monitor_task, stability_orphans, event_callbacks, running, managed_connections>>

\* First run of a task created by start (192) or _on_ble_event (373):
\* line 209, then the loop.  A KeyError at 209 is outside the try and ends
\* the task.
TaskRun(a, i) ==
    /\ TaskAt(a, i).pc = "start"
    /\ TaskStep(a, i,
          IF managed_connections[a] = NoRec
          THEN [heap |-> heap, task |-> DoneTask, ev |-> <<>>]
          ELSE connection_manager_loop(heap, managed_connections[a], a, <<>>))

\* The awaited connect (257-260) finishes: it returns, raises, or wait_for
\* times out at connection_timeout.  Then 262-302 and the loop again.
OutcomePossible(t, outcome) ==
    /\ t.pc = "connecting"
    /\ IF outcome = "timeout" THEN t.wake = 0 ELSE t.wake > 0

ConnectCompletes(a, i, outcome) ==
    LET t == TaskAt(a, i) IN
    /\ OutcomePossible(t, outcome)
    /\ LET e == attempt_connection_end(heap, t.aconn, a, outcome)
           l == connection_manager_loop(e.heap, t.conn, a, e.ev)
       IN TaskStep(a, i, l)

\* The Failed branch without its last line: the state stays Failed.
after_sleep_stays_failed(h, t) == h

\* What follows the await of a sleep in its branch: after the Failed backoff
\* line 228 sets the task's connection Disconnected, the other branches have
\* nothing after their sleep.
after_sleep(h, t) ==
    IF t.pc = "sleep_failed"
    THEN [h EXCEPT ![t.conn].state = "disconnected"]
    ELSE h

\* A sleep ends (218, 227, 236, 239, 245, 323), then the loop again.
TaskWake(a, i) ==
    LET t == TaskAt(a, i) IN
    /\ t.pc \in {"sleep", "sleep_failed"}
    /\ t.wake = 0
    /\ TaskStep(a, i, connection_manager_loop(after_sleep(heap, t), t.conn, a, <<>>))

\* _stability_monitor (325-352) from the top of its loop to the sleep of
\* 346: one stability_report for the manager, or the end of the task.
stability_monitor_loop ==
    IF running
    THEN [task |-> [pc |-> "sleep", conn |-> NoRec, aconn |-> NoRec,
                    wake |-> DefaultConfig.stability_check_interval],
          ev |-> <<Event("manager", "stability_report", None, None)>>]
    ELSE [task |-> DoneTask, ev |-> <<>>]

StabilityTaskAt(i) ==
    IF i = 0 THEN stability_monitor_task ELSE stability_orphans[i]

\* A _stability_monitor task runs for the first time or back from its sleep.
StabilityStep(i) ==
    LET t == StabilityTaskAt(i)
        l == stability_monitor_loop
    IN /\ t.pc = "start" \/ (t.pc = "sleep" /\ t.wake = 0)
       /\ IF i = 0
          THEN /\ stability_monitor_task' = l.task
               /\ UNCHANGED stability_orphans
          ELSE /\ stability_orphans' =
                     IF Live(l.task)
                     THEN [stability_orphans EXCEPT ![i] = l.task]
                     ELSE DropAt(stability_orphans, i)
               /\ UNCHANGED stability_monitor_task
       /\ Emitted(emit_events(l.ev))
       /\ UNCHANGED <<running, managed_connections, heap, connection_tasks,
                      orphans, event_callbacks>>

\* One second passes.
Elapse(c) ==
    [c EXCEPT !.pause_until = IF @ = None THEN None ELSE Max(@ - 1, 0),
              !.last_activity = IF @ = None THEN None ELSE @ + 1]
ElapseTask(t) == [t EXCEPT !.wake = Max(@ - 1, 0)]

Tick ==
    /\ heap' = [r \in DOMAIN heap |-> Aged(Elapse(heap[r]))]
    /\ connection_tasks' = [a \in DOMAIN connection_tasks |->
                                ElapseTask(connection_tasks[a])]
    /\ orphans' = [a \in DOMAIN orphans |->
          [k \in 1..Len(orphans[a]) |-> ElapseTask(orphans[a][k])]]
    /\ stability_monitor_task' = ElapseTask(stability_monitor_task)
    /\ stability_orphans' = [k \in 1..Len(stability_orphans) |->
                                ElapseTask(stability_orphans[k])]
    /\ Emitted(emit_events(<<>>))
    /\ UNCHANGED <<event_callbacks, running, managed_connections>>

NextWithin(limit, monitor) ==
    \/ \E a \in Addresses, cfg \in Configs : AddManagedDevice(a, cfg, limit)
    \/ \E a \in Addresses : RemoveManagedDevice(a)
    \/ \E a \in Addresses : EnableDevice(a)
    \/ \E a \in Addresses : DisableDevice(a)
    \/ \E a \in Addresses, d \in PauseDurations : PauseDevice(a, d)
    \/ Start(limit, monitor)
    \/ Stop
    \/ \E a \in Addresses, p \in PacketTypes : OnBleEvent(a, p)
    \/ \E a \in Addresses : \E i \in TaskIdx(a) : TaskRun(a, i)
    \/ \E a \in Addresses : \E i \in TaskIdx(a), o \in Outcomes :
          ConnectCompletes(a, i, o)
    \/ \E a \in Addresses : \E i \in TaskIdx(a) : TaskWake(a, i)
    \/ Tick

\* ------------------------------------------- calculate_retry_delay alone
\* A connection left Failed with any retry_count, under any strategy and any
\* pair of delays, a non-positive initial_retry_delay and one above
\* max_retry_delay included; the task then runs the Failed branch (225-227).
RetryStrategies == {"exponential_backoff", "fixed_interval", "linear_backoff"}
DelayConfigs ==
    {[DefaultConfig EXCEPT !.retry_strategy = s, !.initial_retry_delay = i,
                           !.max_retry_delay = m] :
        s \in RetryStrategies, i \in (-1)..MaxDelay, m \in 1..MaxDelay}

InitDelay ==
    /\ running = TRUE
    /\ \E cfg \in DelayConfigs, n \in 0..MaxRetryCount :
          heap = [r \in {1} |->
                    [ManagedConnection(cfg) EXCEPT !.state = "failed",
                                                   !.retry_count = n]]
    /\ managed_connections = [a \in Addresses |-> 1]
    /\ connection_tasks = [a \in Addresses |-> NewTask]
    /\ orphans = [a \in Addresses |-> <<>>]
    /\ stability_monitor_task = NoTask
    /\ stability_orphans = <<>>
    /\ event_callbacks = <<>>
    /\ received = <<>>
    /\ emit_raised = FALSE

\* The Failed branch up to its sleep: delay = calculate_retry_delay() (226).
RetryDelay(a) ==
    /\ connection_tasks[a].pc = "start"
    /\ LET r == managed_connections[a] IN
       connection_tasks' = [connection_tasks EXCEPT ![a] =
           [pc |-> "sleep_failed", conn |-> r, aconn |-> NoRec,
            wake |-> calculate_retry_delay(heap[r])]]
    /\ UNCHANGED <<stability_monitor_task, stability_orphans, heap, running, managed_connections, orphans,
                   event_callbacks, received, emit_raised>>

\* One more failure has been counted (275, 286, 296) and the Failed branch
\* runs again.
NextRetryDelay(a) ==
    /\ connection_tasks[a].pc = "sleep_failed"
    /\ LET r == managed_connections[a]
           c1 == [heap[r] EXCEPT !.retry_count = @ + 1]
       IN /\ heap[r].retry_count < MaxRetryCount
          /\ heap' = [heap EXCEPT ![r] = c1]
          /\ connection_tasks' = [connection_tasks EXCEPT ![a].wake =
                                     calculate_retry_delay(c1)]
    /\ UNCHANGED <<stability_monitor_task, stability_orphans, running, managed_connections, orphans,
                   event_callbacks, received, emit_raised>>

NextDelay ==
    \/ \E a \in Addresses : RetryDelay(a)
    \/ \E a \in Addresses : NextRetryDelay(a)

SpecDelay == InitDelay /\ [][NextDelay]_vars

\* Next keeps MaxObjects objects and untracked tasks; NextWide has room for
\* one more, which at MaxObjects = 1 is the least that lets start() run twice
\* or add_managed_device replace an object a task still holds.
\* The stability monitor reads the connections and publishes its report; it
\* writes nothing that the manager or a per-device task reads.  Next and
\* NextWide leave its tasks out: their start() creates none.  NextStability
\* has the stability monitor; there every device is added without a config
\* (145: the manager's default) and pause_device is not called.
Next == NextWithin(MaxObjects, FALSE)
NextWide == NextWithin(MaxObjects + 1, FALSE)
NextStability ==
    \/ \E a \in Addresses : AddManagedDevice(a, NoConfig, MaxObjects)
    \/ \E a \in Addresses : RemoveManagedDevice(a)
    \/ \E a \in Addresses : EnableDevice(a)
    \/ \E a \in Addresses : DisableDevice(a)
    \/ Start(MaxObjects, TRUE)
    \/ Stop
    \/ \E a \in Addresses, p \in PacketTypes : OnBleEvent(a, p)
    \/ \E a \in Addresses : \E i \in TaskIdx(a) : TaskRun(a, i)
    \/ \E a \in Addresses : \E i \in TaskIdx(a), o \in Outcomes :
          ConnectCompletes(a, i, o)
    \/ \E a \in Addresses : \E i \in TaskIdx(a) : TaskWake(a, i)
    \/ \E i \in 0..Len(stability_orphans) : StabilityStep(i)
    \/ Tick

\* NextEvents has subscribers: each of the two kinds registers at most once,
\* at any time.  There the manager is started once and not stopped, a device
\* is added only while its address is not managed, and enable_device and
\* pause_device are not called; remove_managed_device and disable_device
\* cancel tasks.
NextEvents ==
    \/ \E cb \in CallbackKinds :
          /\ \A k \in 1..Len(event_callbacks) : event_callbacks[k] # cb
          /\ RegisterEventCallback(cb)
    \/ \E a \in Addresses, cfg \in Configs :
          managed_connections[a] = NoRec /\ AddManagedDevice(a, cfg, MaxObjects)
    \/ \E a \in Addresses : RemoveManagedDevice(a)
    \/ \E a \in Addresses : DisableDevice(a)
    \/ ~running /\ Start(MaxObjects, FALSE)
    \/ \E a \in Addresses, p \in PacketTypes : OnBleEvent(a, p)
    \/ \E a \in Addresses : \E i \in TaskIdx(a) : TaskRun(a, i)
    \/ \E a \in Addresses : \E i \in TaskIdx(a), o \in Outcomes :
          ConnectCompletes(a, i, o)
    \/ \E a \in Addresses : \E i \in TaskIdx(a) : TaskWake(a, i)
    \/ Tick

\* get_connection_status (387-399); NoStatus is its None.
NoStatus == [address |-> None]
get_connection_status(a) ==
    IF managed_connections[a] # NoRec
    THEN LET connection == heap[managed_connections[a]] IN
         [address |-> a,
          state |-> connection.state,
          metrics |-> [total_attempts |-> connection.total_attempts,
                       successful_connections |-> connection.successful_connections,
                       failed_connections |-> connection.failed_connections,
                       consecutive_failures |-> connection.consecutive_failures,
                       stability_score |-> connection.stability_score],
          retry_count |-> connection.retry_count,
          enabled |-> connection.is_enabled,
          paused_until |-> connection.pause_until]
    ELSE NoStatus

\* get_all_connections_status with an entry for every address ever seen.
get_all_connections_status_every_address ==
    [a \in DOMAIN managed_connections |-> get_connection_status(a)]

\* get_all_connections_status (401-406)
get_all_connections_status ==
    [a \in {b \in DOMAIN managed_connections : managed_connections[b] # NoRec} |->
        get_connection_status(a)]

\* The manager's synchronous interface on two addresses, without
\* pause_device and without the clock: no start(), so that no per-device
\* task runs (a task a Disconnection event creates stays where it was
\* created); each kind of subscriber registers at most once.
StatusAddresses == {"a1", "a2"}

InitStatus ==
    /\ running = FALSE
    /\ managed_connections = [a \in StatusAddresses |-> NoRec]
    /\ heap = <<>>
    /\ connection_tasks = [a \in StatusAddresses |-> NoTask]
    /\ orphans = [a \in StatusAddresses |-> <<>>]
    /\ stability_monitor_task = NoTask
    /\ stability_orphans = <<>>
    /\ event_callbacks = <<>>
    /\ received = <<>>
    /\ emit_raised = FALSE

NextStatus ==
    \/ \E cb \in CallbackKinds :
          /\ \A k \in 1..Len(event_callbacks) : event_callbacks[k] # cb
          /\ RegisterEventCallback(cb)
    \/ \E a \in StatusAddresses, config \in Configs :
          AddManagedDevice(a, config, MaxObjects + 1)
    \/ \E a \in StatusAddresses : RemoveManagedDevice(a)
    \/ \E a \in StatusAddresses : EnableDevice(a)
    \/ \E a \in StatusAddresses : DisableDevice(a)
    \/ \E a \in StatusAddresses, p \in PacketTypes : OnBleEvent(a, p)

\* NextFailing: a device is added with one of FailingConfigs, the manager is
\* started once, and from then on only the device's task runs and time
\* passes; every connect ends in a failure (false, timeout or exception).
\* No call of the manager's interface and no radio event follows start.
\* The configurations have both limits of should_retry binding in turn and
\* fewer permitted attempts than MaxAttempts.
FailingConfigs ==
    {cfg \in {[DefaultConfig EXCEPT !.max_retries = r,
                                    !.max_consecutive_failures = f,
                                    !.retry_strategy = s,
                                    !.connection_timeout = t] :
                  r \in 0..MaxAttempts, f \in 1..MaxAttempts,
                  s \in RetryStrategies, t \in 1..2} :
        Min(cfg.max_retries, cfg.max_consecutive_failures) < MaxAttempts}

NextFailing ==
    \/ \E a \in Addresses, cfg \in FailingConfigs :
          /\ ~running
          /\ managed_connections[a] = NoRec
          /\ AddManagedDevice(a, cfg, MaxObjects)
    \/ /\ ~running
       /\ \A a \in Addresses : managed_connections[a] # NoRec
       /\ Start(MaxObjects, FALSE)
    \/ \E a \in Addresses : \E i \in TaskIdx(a) : TaskRun(a, i)
    \/ \E a \in Addresses : \E i \in TaskIdx(a), o \in Outcomes \ {"true"} :
          ConnectCompletes(a, i, o)
    \/ \E a \in Addresses : \E i \in TaskIdx(a) : TaskWake(a, i)
    \/ Tick

Spec == Init /\ [][Next]_vars
\* The event loop runs a task that is ready and time passes: weak fairness
\* of the steps of NextFailing.
SpecFailing == Init /\ [][NextFailing]_vars /\ WF_vars(NextFailing)
SpecStatus == InitStatus /\ [][NextStatus]_vars
SpecEvents == Init /\ [][NextEvents]_vars
SpecWide == Init /\ [][NextWide]_vars
SpecStability == Init /\ [][NextStability]_vars

\* ------------------------------------------------------------- properties
Managed(a) == managed_connections[a] # NoRec
Rec(a) == heap[managed_connections[a]]
AllTasks(a) == {TaskAt(a, i) : i \in TaskIdx(a)}
\* The connect calls outstanding for an address: one per task awaiting 257.
InFlight(a) == Cardinality({i \in TaskIdx(a) : TaskAt(a, i).pc = "connecting"})

\* C1: in every reachable state every managed connection has
\* successful_connections + failed_connections = total_attempts.
C1_MetricsAddUp ==
    \A a \in Addresses : Managed(a) =>
        Rec(a).successful_connections + Rec(a).failed_connections
            = Rec(a).total_attempts

\* A managed connection that has counted successes and failures.
C1_Witness ==
    \E a \in Addresses :
        /\ Managed(a)
        /\ Rec(a).successful_connections >= 1
        /\ Rec(a).failed_connections >= 1

\* C2: at most one connect call is outstanding per address.
C2_OneAttemptPerAddress == \A a \in Addresses : InFlight(a) <= 1

\* The ManagedConnection an attempt of task t is made on, when
\* _attempt_connection returns with the given outcome.
AfterAttempt(a, t, outcome) ==
    attempt_connection_end(heap, t.aconn, a, outcome).heap[t.aconn]

\* C3: an attempt whose connect returns true within connection_timeout
\* leaves its connection Connected with retry_count 0 and
\* consecutive_failures 0, and successful_connections and total_attempts
\* each one higher.
C3_SuccessOutcome ==
    \A a \in Addresses : \A t \in AllTasks(a) :
        OutcomePossible(t, "true") =>
            LET c0 == heap[t.aconn]
                c1 == AfterAttempt(a, t, "true")
            IN /\ c1.state = "connected"
               /\ c1.retry_count = 0
               /\ c1.consecutive_failures = 0
               /\ c1.successful_connections = c0.successful_connections + 1
               /\ c1.total_attempts = c0.total_attempts + 1

\* A device that connected on an attempt made after a failed one.
C3_Witness ==
    \E a \in Addresses :
        /\ Managed(a)
        /\ Rec(a).state = "connected"
        /\ Rec(a).successful_connections = 1
        /\ Rec(a).failed_connections >= 1
        /\ Rec(a).retry_count = 0
        /\ Rec(a).consecutive_failures = 0

\* C4: an attempt that ends with connect returning false, with the timeout
\* or with an error leaves its connection Failed, with retry_count,
\* consecutive_failures, failed_connections and total_attempts each one
\* higher.
C4_FailureOutcome ==
    \A a \in Addresses : \A t \in AllTasks(a) :
        \A o \in {"false", "timeout", "error"} :
            OutcomePossible(t, o) =>
                LET c0 == heap[t.aconn]
                    c1 == AfterAttempt(a, t, o)
                IN /\ c1.state = "failed"
                   /\ c1.retry_count = c0.retry_count + 1
                   /\ c1.consecutive_failures = c0.consecutive_failures + 1
                   /\ c1.failed_connections = c0.failed_connections + 1
                   /\ c1.total_attempts = c0.total_attempts + 1

\* A device left Failed by its second failed attempt, its backoff running.
C4_Witness ==
    \E a \in Addresses :
        /\ Managed(a)
        /\ Rec(a).state = "failed"
        /\ Rec(a).retry_count = 2
        /\ Rec(a).consecutive_failures = 2
        /\ Rec(a).failed_connections = 2
        /\ connection_tasks[a].pc = "sleep_failed"

\* C5: should_retry is true exactly when the device is enabled, not paused
\* (pause_until unset or reached), retry_count < max_retries and
\* consecutive_failures < max_consecutive_failures.
C5_ShouldRetryIff ==
    \A r \in DOMAIN heap :
        LET c == heap[r] IN
        should_retry(c) <=>
            /\ c.is_enabled
            /\ c.pause_until = None \/ c.pause_until = 0
            /\ c.retry_count < c.config.max_retries
            /\ c.consecutive_failures < c.config.max_consecutive_failures

\* An enabled, unpaused device that only the retry limit stops, and the
\* per-device loop asking should_retry about it.
C5_Witness ==
    \E a \in Addresses :
        /\ Managed(a)
        /\ Rec(a).is_enabled
        /\ Rec(a).pause_until = None
        /\ Rec(a).state = "disconnected"
        /\ Rec(a).retry_count = Rec(a).config.max_retries
        /\ Rec(a).consecutive_failures < Rec(a).config.max_consecutive_failures
        /\ running
        /\ connection_tasks[a].pc = "sleep"

\* should_retry's two limits (113-117): the device is policy-exhausted.
Exhausted(c) ==
    \/ c.retry_count >= c.config.max_retries
    \/ c.consecutive_failures >= c.config.max_consecutive_failures

\* The step is one of a _connection_manager task of the address: no call of
\* the manager's interface and no radio event.
TaskStepFor(a) ==
    \E i \in TaskIdx(a) :
        \/ TaskRun(a, i)
        \/ TaskWake(a, i)
        \/ \E o \in Outcomes : ConnectCompletes(a, i, o)

\* Attempts begun so far on the address's connection: those update_metrics
\* has counted and those awaiting connect.  A task step that raises it
\* began an attempt (250-257).
AttemptsBegun(a) ==
    Rec(a).total_attempts
        + Cardinality({i \in TaskIdx(a) :
              /\ TaskAt(a, i).pc = "connecting"
              /\ TaskAt(a, i).aconn = managed_connections[a]})

\* C6: retry_count never exceeds config.max_retries, and whenever a task
\* begins a connection attempt for an address the retry_count of the
\* address's connection is below config.max_retries.
C6_RetryBelowMax ==
    [][\A a \in Addresses : Managed(a)' =>
          /\ Rec(a)'.retry_count <= Rec(a)'.config.max_retries
          /\ (Managed(a) /\ TaskStepFor(a) /\ AttemptsBegun(a)' > AttemptsBegun(a))
                => Rec(a)'.retry_count < Rec(a)'.config.max_retries]_vars

\* C7: a task step that leaves the address's connection policy-exhausted
\* begins no connection attempt for it: neither after the failure that
\* exhausted it nor later, as long as only the tasks run.
C7_ExhaustedStartsNothing ==
    [][\A a \in Addresses :
          (Managed(a) /\ TaskStepFor(a) /\ Exhausted(Rec(a))')
              => AttemptsBegun(a)' <= AttemptsBegun(a)]_vars

\* C8: enable_device, pause_device(address, 0) and an external Connection
\* event each leave a policy-exhausted device no longer exhausted, so that
\* should_retry can hold again.
C8_InterventionLifts ==
    [][\A a \in Addresses :
          (/\ Managed(a)
           /\ Exhausted(Rec(a))
           /\ \/ EnableDevice(a)
              \/ PauseDevice(a, 0)
              \/ OnBleEvent(a, "connection"))
              => ~Exhausted(Rec(a))']_vars

\* C9 as stated: a policy-exhausted device that is Failed stays Failed as
\* long as only its tasks run.
C9_StaysFailed ==
    [][\A a \in Addresses :
          (/\ Managed(a)
           /\ Exhausted(Rec(a))
           /\ Rec(a).state = "failed"
           /\ TaskStepFor(a))
              => Rec(a)'.state = "failed"]_vars

\* C9: a policy-exhausted connection is Failed only for the backoff delay:
\* when the sleep at 227 ends, its task sets it Disconnected (228) and,
\* should_retry being false, leaves it Disconnected.
C9_BackoffThenDisconnected ==
    [][\A a \in Addresses : \A i \in TaskIdx(a) :
          LET t == TaskAt(a, i) IN
          (/\ t.pc = "sleep_failed"
           /\ Exhausted(heap[t.conn])
           /\ TaskWake(a, i)
           /\ t.conn \in DOMAIN heap')
              => heap'[t.conn].state = "disconnected"]_vars

\* An exhausted device whose task, back from the backoff, idles at 218 with
\* the device Disconnected; no radio event and no success has touched it.
C9_Witness ==
    \E a \in Addresses :
        /\ Managed(a)
        /\ Exhausted(Rec(a))
        /\ Rec(a).state = "disconnected"
        /\ Rec(a).last_activity = None
        /\ Rec(a).failed_connections >= 1
        /\ running
        /\ connection_tasks[a].pc = "sleep"
        /\ connection_tasks[a].conn = managed_connections[a]

\* C10 as stated: with N failed attempts and no success, retry_count =
\* min(N, max_retries) and consecutive_failures = N.
C10_RetryCountMin ==
    \A a \in Addresses :
        (Managed(a) /\ Rec(a).successful_connections = 0) =>
            /\ Rec(a).retry_count
                   = Min(Rec(a).failed_connections, Rec(a).config.max_retries)
            /\ Rec(a).consecutive_failures = Rec(a).failed_connections

\* C10: with N failed attempts, no success and no radio event for the
\* address since it was added (last_activity is still unset), retry_count =
\* N and consecutive_failures = N.
C10_CountsWithoutEvents ==
    \A a \in Addresses :
        (/\ Managed(a)
         /\ Rec(a).successful_connections = 0
         /\ Rec(a).last_activity = None) =>
            /\ Rec(a).retry_count = Rec(a).failed_connections
            /\ Rec(a).consecutive_failures = Rec(a).failed_connections

\* A device that has failed twice since it was added, with nothing else.
C10_Witness ==
    \E a \in Addresses :
        /\ Managed(a)
        /\ Rec(a).successful_connections = 0
        /\ Rec(a).last_activity = None
        /\ Rec(a).failed_connections = 2
        /\ Rec(a).retry_count = 2

\* The delay a task sleeps in the Failed branch, and the connection it was
\* computed for.
Backoff(a) == connection_tasks[a].wake
InBackoff(a) == Managed(a) /\ connection_tasks[a].pc = "sleep_failed"

\* C11: the delay is min(initial * 2^retry_count, max) under Exponential and
\* min(initial * (1 + retry_count), max) under Linear; with initial 1 and
\* max 10, Exponential gives 1, 2, 4, 8 for retry_count 0..3 and 10 for 10.
C11_DelayFormula ==
    \A a \in Addresses : InBackoff(a) =>
        LET c == Rec(a)
            initial == c.config.initial_retry_delay
            max == c.config.max_retry_delay
            n == c.retry_count
        IN /\ c.config.retry_strategy = "exponential_backoff" =>
                 Backoff(a) = IF initial * 2 ^ n < max THEN initial * 2 ^ n ELSE max
           /\ c.config.retry_strategy = "linear_backoff" =>
                 Backoff(a) = IF initial * (1 + n) < max THEN initial * (1 + n) ELSE max
           /\ (/\ c.config.retry_strategy = "exponential_backoff"
               /\ initial = 1 /\ max = 10 /\ n \in {0, 1, 2, 3, 10}) =>
                 Backoff(a) = CASE n = 0 -> 1 [] n = 1 -> 2 [] n = 2 -> 4
                                [] n = 3 -> 8 [] OTHER -> 10

\* The last case of the example: retry_count 10 would give 1024, capped at 10.
C11_Witness ==
    \E a \in Addresses :
        /\ InBackoff(a)
        /\ Rec(a).config.retry_strategy = "exponential_backoff"
        /\ Rec(a).config.initial_retry_delay = 1
        /\ Rec(a).config.max_retry_delay = 10
        /\ Rec(a).retry_count = 10
        /\ Backoff(a) = 10

\* C12: under Exponential and Linear with a positive initial_retry_delay the
\* delay never exceeds max_retry_delay, and the delay after one more retry
\* is not smaller than the one before.
C12_DelayMonotoneCapped ==
    [][\A a \in Addresses :
          (/\ Managed(a)
           /\ Rec(a).config.retry_strategy
                  \in {"exponential_backoff", "linear_backoff"}
           /\ Rec(a).config.initial_retry_delay > 0) =>
              /\ (RetryDelay(a) \/ NextRetryDelay(a)) =>
                     Backoff(a)' <= Rec(a).config.max_retry_delay
              /\ NextRetryDelay(a) => Backoff(a) <= Backoff(a)']_vars

\* A delay that grew with retry_count until the cap stopped it.
C12_Witness ==
    \E a \in Addresses :
        /\ InBackoff(a)
        /\ Rec(a).config.retry_strategy = "linear_backoff"
        /\ Rec(a).config.initial_retry_delay = 3
        /\ Rec(a).retry_count = 3
        /\ Rec(a).config.max_retry_delay = 10
        /\ Backoff(a) = 10

\* C13 as stated: under Fixed the delay is initial_retry_delay, whatever
\* retry_count and max_retry_delay are.
C13_FixedIsInitial ==
    \A a \in Addresses :
        (InBackoff(a) /\ Rec(a).config.retry_strategy = "fixed_interval") =>
            Backoff(a) = Rec(a).config.initial_retry_delay

\* C13: under Fixed the delay is the smaller of initial_retry_delay and
\* max_retry_delay for every retry_count: line 83 caps Fixed as well.
C13_FixedIsCappedInitial ==
    \A a \in Addresses :
        (InBackoff(a) /\ Rec(a).config.retry_strategy = "fixed_interval") =>
            Backoff(a) = IF Rec(a).config.initial_retry_delay
                              <= Rec(a).config.max_retry_delay
                         THEN Rec(a).config.initial_retry_delay
                         ELSE Rec(a).config.max_retry_delay

\* Fixed with initial_retry_delay above max_retry_delay, after some retries.
C13_Witness ==
    \E a \in Addresses :
        /\ InBackoff(a)
        /\ Rec(a).config.retry_strategy = "fixed_interval"
        /\ Rec(a).config.initial_retry_delay > Rec(a).config.max_retry_delay
        /\ Rec(a).retry_count >= 2
        /\ Backoff(a) = Rec(a).config.max_retry_delay

\* C14 as stated: a connection whose state is Paused has pause_until set and
\* later than now.
C14_PausedUntilLater ==
    \A a \in Addresses :
        (Managed(a) /\ Rec(a).state = "paused") =>
            Rec(a).pause_until # None /\ Rec(a).pause_until > 0

\* C14: a connection whose state is Paused has pause_until set; it may have
\* been reached already.
C14_PausedHasDeadline ==
    \A r \in DOMAIN heap :
        heap[r].state = "paused" => heap[r].pause_until # None

\* A Paused device whose pause_until is now or earlier, waiting for its task
\* to run the Paused branch (232-234).
C14_Witness ==
    \E a \in Addresses :
        /\ Managed(a)
        /\ Rec(a).state = "paused"
        /\ Rec(a).pause_until = 0
        /\ running
        /\ connection_tasks[a].pc = "sleep"
        /\ connection_tasks[a].wake > 0

\* C15: while pause_until is still ahead, no step changes the state of a
\* Paused connection.
C15_PausedUntilExpiry ==
    [][\A a \in Addresses :
          (/\ Managed(a)
           /\ managed_connections'[a] = managed_connections[a]
           /\ Rec(a).state = "paused"
           /\ Rec(a).pause_until # None
           /\ Rec(a).pause_until > 0)
              => Rec(a)'.state = "paused"]_vars

\* C16: disable_device on a managed device leaves it Disconnected with
\* is_enabled false, whatever its state was.
C16_DisableDisconnects ==
    [][\A a \in Addresses :
          (Managed(a) /\ DisableDevice(a)) =>
              /\ Rec(a)'.state = "disconnected"
              /\ ~Rec(a)'.is_enabled]_vars

\* C17: while a device is disabled no attempt outcome is applied to it
\* (every outcome is counted in total_attempts) and no connect call for its
\* address is begun.
C17_DisableCancels ==
    [][\A a \in Addresses :
          (/\ Managed(a)
           /\ managed_connections'[a] = managed_connections[a]
           /\ ~Rec(a).is_enabled
           /\ ~Rec(a)'.is_enabled)
              => /\ Rec(a)'.total_attempts = Rec(a).total_attempts
                 /\ InFlight(a)' <= InFlight(a)]_vars

\* A _stability_monitor step that published a report: its task sleeps at 346
\* afterwards; one that found _running false ended its task.
Reported(i) ==
    /\ StabilityStep(i)
    /\ IF i = 0 THEN Live(stability_monitor_task')
       ELSE Len(stability_orphans') = Len(stability_orphans)

\* C18: stop() leaves the manager not running, connection_tasks empty and
\* the stored stability task cancelled; and from a state in which the
\* manager is not running no step but start() begins a connection attempt or
\* publishes a stability_report, radio events included.
C18_StopQuiesces ==
    [][/\ Stop =>
              /\ ~running'
              /\ \A a \in Addresses : connection_tasks'[a] = NoTask
              /\ ~Live(stability_monitor_task')
       /\ (~running /\ ~running') =>
              /\ \A a \in Addresses :
                    /\ InFlight(a)' <= InFlight(a)
                    /\ (Managed(a) /\ managed_connections'[a] = managed_connections[a])
                          => AttemptsBegun(a)' <= AttemptsBegun(a)
              /\ \A i \in 0..Len(stability_orphans) : ~Reported(i)]_vars

\* After stop() a Disconnection event has created a task (373) for a device
\* that start() had attempted before and that should_retry would let attempt.
C18_Witness ==
    \E a \in Addresses :
        /\ ~running
        /\ Managed(a)
        /\ Rec(a).total_attempts >= 1
        /\ Rec(a).state = "disconnected"
        /\ should_retry(Rec(a))
        /\ connection_tasks[a].pc = "start"
        /\ ~Live(stability_monitor_task)

\* C19: an external Disconnection event for a managed address whose state is
\* Connected makes the state Disconnected whatever reconnect_on_failure is;
\* when reconnect_on_failure is true it also resets retry_count to 0 and
\* leaves a per-device loop for the (enabled) device.
C19_DisconnectionDisconnects ==
    [][\A a \in Addresses :
         (Managed(a) /\ Rec(a).state = "connected" /\ OnBleEvent(a, "disconnection"))
         => /\ Rec(a)'.state = "disconnected"
            /\ Rec(a).config.reconnect_on_failure
               => /\ Rec(a)'.retry_count = 0
                  /\ Rec(a).is_enabled => Live(connection_tasks'[a])]_vars

\* C20: an external Connection event for a managed address makes the state
\* Connected, retry_count 0 and last_activity now, whatever the state was.
C20_ConnectionConnects ==
    [][\A a \in Addresses :
         (Managed(a) /\ OnBleEvent(a, "connection"))
         => /\ Rec(a)'.state = "connected"
            /\ Rec(a)'.retry_count = 0
            /\ Rec(a)'.last_activity = 0]_vars

\* A device that never connected by its own attempt, has a failed attempt
\* behind it, and is Connected with retry_count 0: the event did it.
C20_Witness ==
    \E a \in Addresses :
        /\ Managed(a)
        /\ Rec(a).state = "connected"
        /\ Rec(a).retry_count = 0
        /\ Rec(a).last_activity = 0
        /\ Rec(a).successful_connections = 0
        /\ Rec(a).failed_connections >= 1

\* How many events of the type a subscriber was called with.
Count(evs, type) == Cardinality({k \in 1..Len(evs) : evs[k].type = type})
Subscribers == 1..Len(event_callbacks)

\* The object task i of address a works on: the one it read at 209, which a
\* task that has not run yet reads in this step.
ObjOf(a, i) ==
    IF TaskAt(a, i).pc = "start" THEN managed_connections[a] ELSE TaskAt(a, i).conn

\* The step is task i of address a entering its loop (first run, or back
\* from a sleep) with its connection Connected: the iteration calls
\* _monitor_connection_health (220-222).
HealthCheck(a, i) ==
    /\ TaskRun(a, i) \/ (TaskAt(a, i).pc = "sleep" /\ TaskWake(a, i))
    /\ ObjOf(a, i) # NoRec
    /\ running
    /\ heap[ObjOf(a, i)].is_enabled
    /\ heap[ObjOf(a, i)].state = "connected"

\* C21: a health check of a Connected device that finds last_activity more
\* than 2 * health_check_interval ago sets the state Disconnected (from
\* where the same loop may begin an attempt at once) and every subscriber
\* gets exactly one connection_stale, first; a health check that finds it
\* at most that long ago leaves the device Connected and emits nothing.
C21_HealthCheck ==
    [][\A a \in Addresses : \A i \in TaskIdx(a) :
          HealthCheck(a, i) =>
              LET c == ObjOf(a, i)
                  age == heap[c].last_activity
                  limit == 2 * heap[c].config.health_check_interval
              IN IF age # None /\ age > limit
                 THEN /\ heap'[c].state \in {"disconnected", "connecting"}
                      /\ \A k \in Subscribers :
                            /\ Count(received'[k], "connection_stale") = 1
                            /\ received'[k][1].type = "connection_stale"
                            /\ received'[k][1].address = a
                            /\ heap'[c].state = "connecting"
                                  <=> Count(received'[k], "connection_attempt") = 1
                 ELSE /\ heap'[c].state = "connected"
                      /\ \A k \in Subscribers : received'[k] = <<>>]_vars

\* A subscriber has just been told that the connection is stale, and the
\* device is Disconnected.
C21_Witness ==
    \E a \in Addresses : \E k \in Subscribers :
        /\ Managed(a)
        /\ Rec(a).state = "disconnected"
        /\ Rec(a).last_activity # None
        /\ received[k] = <<Event(a, "connection_stale", None, None)>>

\* C22: no subscriber's exception leaves _emit_event, and every subscriber
\* is called with every event of the step, whichever subscribers raise: a
\* step that emits goes on to its end, later events included.
C22_SubscriberIsolated ==
    /\ ~emit_raised
    /\ \A j, k \in Subscribers : received[j] = received[k]

\* A subscriber registered after a raising one has been called with both
\* events of a task step: the stale connection and the attempt that follows.
C22_Witness ==
    /\ event_callbacks = <<"raises", "returns">>
    /\ Len(received[2]) = 2
    /\ received[2][1].type = "connection_stale"
    /\ received[2][2].type = "connection_attempt"
    /\ received[1] = received[2]

\* C23: in every step every registered subscriber is called with the events
\* the code of the step passes to _emit_event, once each and in the order of
\* the calls: one event for a manager call on a managed address (147, 158,
\* 174), those of the task's run for a task step (244, 253, 270-302, 317),
\* none for start, a radio event or the clock.
C23_OnceInIssueOrder ==
    [][\A a \in Addresses :
          /\ (\E cfg \in Configs : AddManagedDevice(a, cfg, MaxObjects))
                => \A k \in Subscribers :
                      received'[k] = <<Event(a, "device_added", None, None)>>
          /\ (Managed(a) /\ RemoveManagedDevice(a))
                => \A k \in Subscribers :
                      received'[k] = <<Event(a, "device_removed", None, None)>>
          /\ (Managed(a) /\ DisableDevice(a))
                => \A k \in Subscribers :
                      received'[k] = <<Event(a, "device_disabled", None, None)>>
          /\ \A i \in TaskIdx(a) :
                LET t == TaskAt(a, i) IN
                /\ (Managed(a) /\ TaskRun(a, i))
                      => \A k \in Subscribers :
                            received'[k] =
                              connection_manager_loop(
                                  heap, managed_connections[a], a, <<>>).ev
                /\ TaskWake(a, i)
                      => \A k \in Subscribers :
                            received'[k] =
                              connection_manager_loop(
                                  after_sleep(heap, t), t.conn, a, <<>>).ev
                /\ \A o \in Outcomes :
                      ConnectCompletes(a, i, o)
                        => LET e == attempt_connection_end(heap, t.aconn, a, o)
                           IN \A k \in Subscribers :
                                 /\ Len(received'[k]) >= 1
                                 /\ received'[k][1] = e.ev[1]
                                 /\ received'[k] =
                                       connection_manager_loop(
                                           e.heap, t.conn, a, e.ev).ev
          /\ (Start(MaxObjects, FALSE) \/ Tick
                  \/ \E p \in PacketTypes : OnBleEvent(a, p))
                => \A k \in Subscribers : received'[k] = <<>>]_vars

\* The only subscriber was called with connection_stale and then with the
\* connection_attempt of the attempt the same task step began.
C23_Witness ==
    \E a \in Addresses :
        /\ event_callbacks = <<"returns">>
        /\ Managed(a)
        /\ received[1] = <<Event(a, "connection_stale", None, None),
                           Event(a, "connection_attempt", Rec(a).retry_count, None)>>

\* C24: when connect raises, every subscriber is called with
\* connection_error for the address, the connection is Failed and, the
\* manager running and the device enabled, the task sleeps the Failed
\* backoff; a task back from that backoff leaves its connection
\* Disconnected, or Connecting with a connection_attempt emitted exactly
\* when should_retry holds for the Disconnected connection.
C24_ErrorSurvived ==
    [][\A a \in Addresses : \A i \in TaskIdx(a) :
          LET t == TaskAt(a, i) IN
          /\ ConnectCompletes(a, i, "error") =>
                /\ t.aconn \in DOMAIN heap' => heap'[t.aconn].state = "failed"
                /\ \A k \in Subscribers :
                      received'[k] = <<Event(a, "connection_error",
                                            heap[t.aconn].retry_count + 1, None)>>
                /\ (running /\ heap[t.conn].is_enabled) =>
                      /\ i \in TaskIdx(a)'
                      /\ TaskAt(a, i)'.pc = "sleep_failed"
                      /\ TaskAt(a, i)'.wake = calculate_retry_delay(heap'[t.aconn])
          /\ (/\ t.pc = "sleep_failed"
              /\ TaskWake(a, i)
              /\ running
              /\ heap[t.conn].is_enabled
              /\ managed_connections[a] = t.conn) =>
                IF should_retry([heap[t.conn] EXCEPT !.state = "disconnected"])
                THEN /\ heap'[t.conn].state = "connecting"
                     /\ TaskAt(a, i)'.pc = "connecting"
                     /\ \A k \in Subscribers :
                           Count(received'[k], "connection_attempt") = 1
                ELSE /\ heap'[t.conn].state = "disconnected"
                     /\ TaskAt(a, i)'.pc = "sleep"
                     /\ \A k \in Subscribers : received'[k] = <<>>]_vars

\* C25: every managed connection has stability_score =
\* successful_connections / max(1, total_attempts): the two quotients are
\* equal (cross-multiplied), the score is 0 before the first attempt and
\* lies in [0, 1].
C25_StabilityScore ==
    \A a \in Addresses : Managed(a) =>
        LET num == Rec(a).stability_score[1]
            den == Rec(a).stability_score[2]
        IN /\ den > 0
           /\ num * Max(1, Rec(a).total_attempts)
                  = Rec(a).successful_connections * den
           /\ Rec(a).total_attempts = 0 => num = 0
           /\ 0 <= num /\ num <= den

\* One success in two attempts: the score is 1/2.
C25_Witness ==
    \E a \in Addresses :
        /\ Managed(a)
        /\ Rec(a).total_attempts = 2
        /\ Rec(a).stability_score = <<1, 2>>

\* C26: add_managed_device leaves the address managed by a connection that
\* is Disconnected and enabled, with retry_count and every metric counter
\* 0, nothing paused or seen, and the given config, or the manager's
\* default config when none was given; every subscriber is called with
\* exactly one event, device_added for the address.
C26_AddedDevice ==
    [][\A a \in Addresses : \A config \in Configs :
          AddManagedDevice(a, config, MaxObjects) =>
              /\ Managed(a)'
              /\ Rec(a)'.state = "disconnected"
              /\ Rec(a)'.retry_count = 0
              /\ Rec(a)'.is_enabled
              /\ Rec(a)'.total_attempts = 0
              /\ Rec(a)'.successful_connections = 0
              /\ Rec(a)'.failed_connections = 0
              /\ Rec(a)'.consecutive_failures = 0
              /\ Rec(a)'.pause_until = None
              /\ Rec(a)'.last_activity = None
              /\ Rec(a)'.config = IF config = NoConfig THEN DefaultConfig ELSE config
              /\ \A k \in Subscribers :
                    received'[k] = <<Event(a, "device_added", None, None)>>]_vars

\* A device has just been added with its own config, and a subscriber told.
C26_Witness ==
    \E a \in Addresses : \E k \in Subscribers :
        /\ Managed(a)
        /\ Rec(a) = ManagedConnection(CustomConfig)
        /\ received[k] = <<Event(a, "device_added", None, None)>>

\* C27: remove_managed_device on a managed address leaves it unmanaged,
\* get_connection_status of it None, get_all_connections_status with exactly
\* the entries of the addresses still managed, each under its own address,
\* and every subscriber called with exactly one event, device_removed for
\* the address.
C27_RemovedDevice ==
    [][\A a \in DOMAIN managed_connections :
          (managed_connections[a] # NoRec /\ RemoveManagedDevice(a)) =>
              /\ managed_connections'[a] = NoRec
              /\ get_connection_status(a)' = NoStatus
              /\ DOMAIN get_all_connections_status'
                    = {b \in DOMAIN managed_connections :
                          managed_connections[b] # NoRec} \ {a}
              /\ \A b \in DOMAIN get_all_connections_status' :
                    /\ get_all_connections_status'[b] = get_connection_status(b)'
                    /\ get_all_connections_status'[b].address = b
              /\ \A k \in Subscribers :
                    received'[k] = <<Event(a, "device_removed", None, None)>>]_vars

\* One of two managed devices has just been removed: the other keeps its
\* entry, and a subscriber was told.
C27_Witness ==
    \E a, b \in DOMAIN managed_connections : \E k \in Subscribers :
        /\ a # b
        /\ managed_connections[a] = NoRec
        /\ managed_connections[b] # NoRec
        /\ DOMAIN get_all_connections_status = {b}
        /\ received[k] = <<Event(a, "device_removed", None, None)>>

\* The events that report how an attempt ended (270, 279, 289, 299).
OutcomeTypes == {"connection_success", "connection_failed",
                 "connection_timeout", "connection_error"}
OutcomeType(o) ==
    CASE o = "true" -> "connection_success"
      [] o = "false" -> "connection_failed"
      [] o = "timeout" -> "connection_timeout"
      [] OTHER -> "connection_error"
CountOutcomes(evs) == Cardinality({n \in 1..Len(evs) : evs[n].type \in OutcomeTypes})

\* C28: the task step that begins an attempt (the task awaits connect
\* afterwards) calls every subscriber with exactly one connection_attempt,
\* last; the step in which the awaited connect ends calls every subscriber
\* with exactly one outcome event, first, of the type that matches how
\* connect ended; no other task step emits an outcome event.  The task is
\* suspended in between, so each attempt that is not cancelled has its
\* connection_attempt followed by its one outcome event.
C28_AttemptThenOutcome ==
    [][\A a \in Addresses : \A i \in TaskIdx(a) :
          /\ \A o \in Outcomes :
                ConnectCompletes(a, i, o) =>
                    \A k \in Subscribers :
                        /\ CountOutcomes(received'[k]) = 1
                        /\ received'[k][1].type = OutcomeType(o)
                        /\ received'[k][1].address = a
          /\ (TaskRun(a, i) \/ TaskWake(a, i)) =>
                \A k \in Subscribers :
                    /\ CountOutcomes(received'[k]) = 0
                    /\ Count(received'[k], "connection_attempt")
                           = InFlight(a)' - InFlight(a)
                    /\ InFlight(a)' - InFlight(a) \in {0, 1}
                    /\ InFlight(a)' > InFlight(a) =>
                          /\ received'[k][Len(received'[k])].type
                                 = "connection_attempt"
                          /\ received'[k][Len(received'[k])].address = a]_vars

\* wait_for has just timed out on the first attempt and a subscriber was
\* told so.
C28_Witness ==
    \E a \in Addresses : \E k \in Subscribers :
        /\ Managed(a)
        /\ Rec(a).state = "failed"
        /\ received[k] = <<Event(a, "connection_timeout", 1, None)>>

\* A task of address a sleeps the Failed backoff (227) and has time left.
BackingOff(a) ==
    \E i \in TaskIdx(a) : /\ TaskAt(a, i).pc = "sleep_failed"
                          /\ TaskAt(a, i).wake > 0

\* C29: when an attempt fails, the manager running and the device enabled,
\* the connection is Failed and the task sleeps calculate_retry_delay() of
\* the connection with its incremented retry_count, the value every
\* subscriber reads as next_retry_delay of connection_failed; the task
\* sets the connection Disconnected only when that sleep has ended; and
\* while a task of the address is in its backoff no attempt for the
\* address begins and no task step changes the state of the device.
C29_Backoff ==
    [][\A a \in Addresses :
          /\ \A i \in TaskIdx(a) :
                LET t == TaskAt(a, i) IN
                /\ \A o \in {"false", "timeout", "error"} :
                      (/\ ConnectCompletes(a, i, o)
                       /\ running
                       /\ heap[t.conn].is_enabled
                       /\ t.aconn \in DOMAIN heap') =>
                          /\ heap'[t.aconn].state = "failed"
                          /\ heap'[t.aconn].retry_count
                                 = heap[t.aconn].retry_count + 1
                          /\ i \in TaskIdx(a)'
                          /\ TaskAt(a, i)'.pc = "sleep_failed"
                          /\ TaskAt(a, i)'.wake
                                 = calculate_retry_delay(heap'[t.aconn])
                          /\ o = "false" =>
                                \A k \in Subscribers :
                                    /\ received'[k][1].type = "connection_failed"
                                    /\ received'[k][1].delay = TaskAt(a, i)'.wake
                /\ (TaskWake(a, i) /\ t.pc = "sleep_failed") =>
                      /\ t.wake = 0
                      /\ t.conn \in DOMAIN heap' => heap'[t.conn].state # "failed"
          /\ (/\ BackingOff(a)
              /\ \E j \in TaskIdx(a) : \E o \in Outcomes :
                     TaskRun(a, j) \/ TaskWake(a, j) \/ ConnectCompletes(a, j, o)) =>
                /\ InFlight(a)' <= InFlight(a)
                /\ (Managed(a) /\ Managed(a)') => Rec(a)'.state = Rec(a).state]_vars

\* The device of address a is Paused and its pause_until has been reached.
PauseOver(a) ==
    /\ Managed(a)
    /\ Rec(a).state = "paused"
    /\ Rec(a).pause_until # None
    /\ Rec(a).pause_until = 0

\* C30: the manager running and the device enabled, a step of the device's
\* task that runs the loop while the device is Paused with pause_until
\* reached clears pause_until and leaves the device Connecting, an attempt
\* begun, when should_retry holds for the Disconnected device, and
\* Disconnected when it does not.
C30_PauseExpires ==
    [][\A a \in Addresses : \A i \in TaskIdx(a) :
          (/\ PauseOver(a)
           /\ running
           /\ Rec(a).is_enabled
           /\ TaskRun(a, i) \/ TaskWake(a, i)) =>
              /\ Rec(a)'.pause_until = None
              /\ IF should_retry([Rec(a) EXCEPT !.state = "disconnected",
                                                !.pause_until = None])
                 THEN /\ Rec(a)'.state = "connecting"
                      /\ InFlight(a)' = InFlight(a) + 1
                 ELSE /\ Rec(a)'.state = "disconnected"
                      /\ InFlight(a)' = InFlight(a)]_vars

\* C31: a step in which an attempt for an address begins leaves the
\* device of that address with pause_until unset or reached.
C31_NoAttemptWhilePaused ==
    [][\A a \in Addresses :
          InFlight(a)' > InFlight(a) =>
              /\ Managed(a)'
              /\ \/ Rec(a)'.pause_until = None
                 \/ Rec(a)'.pause_until = 0]_vars

\* The attempts should_retry permits a device that only fails (113-117).
Quota(a) == Min(Rec(a).config.max_retries, Rec(a).config.max_consecutive_failures)

TaskSteps == \E a \in Addresses : TaskStepFor(a)
Scheduling == WF_vars(TaskSteps) /\ WF_vars(Tick)

\* NextLate: the manager is started once, before or after a device is
\* added; the tasks run, time passes and the radio reports packets.
NextLate ==
    \/ \E a \in Addresses, cfg \in Configs :
          managed_connections[a] = NoRec /\ AddManagedDevice(a, cfg, MaxObjects)
    \/ ~running /\ Start(MaxObjects, FALSE)
    \/ \E a \in Addresses, p \in PacketTypes : OnBleEvent(a, p)
    \/ \E a \in Addresses : \E i \in TaskIdx(a) : TaskRun(a, i)
    \/ \E a \in Addresses : \E i \in TaskIdx(a), o \in Outcomes :
          ConnectCompletes(a, i, o)
    \/ \E a \in Addresses : \E i \in TaskIdx(a) : TaskWake(a, i)
    \/ Tick
SpecLate == Init /\ [][NextLate]_vars /\ Scheduling

\* The loop would begin an attempt for the device of the address: running,
\* enabled, Disconnected, should_retry true (211-215).
Eligible(a) ==
    /\ running
    /\ Managed(a)
    /\ Rec(a).is_enabled
    /\ Rec(a).state = "disconnected"
    /\ should_retry(Rec(a))
    /\ Rec(a).total_attempts < MaxAttempts

\* C33: a device that is eligible for an attempt is eventually attempted
\* (or stops being eligible), also when it was added after start.
C33_EventuallyAttempted ==
    \A a \in Addresses : Eligible(a) ~> (InFlight(a) > 0 \/ ~Eligible(a))

\* NextLive: devices are added before the manager is started; the manager
\* is started and stopped in turn, devices are disabled and enabled while
\* it runs; the tasks run and time passes.  No radio packet arrives.
NextLive ==
    \/ \E a \in Addresses, cfg \in Configs :
          /\ ~running
          /\ managed_connections[a] = NoRec
          /\ AddManagedDevice(a, cfg, MaxObjects)
    \/ ~running /\ Start(MaxObjects, FALSE)
    \/ running /\ Stop
    \/ \E a \in Addresses : running /\ DisableDevice(a)
    \/ \E a \in Addresses : running /\ EnableDevice(a)
    \/ \E a \in Addresses : \E i \in TaskIdx(a) : TaskRun(a, i)
    \/ \E a \in Addresses : \E i \in TaskIdx(a), o \in Outcomes :
          ConnectCompletes(a, i, o)
    \/ \E a \in Addresses : \E i \in TaskIdx(a) : TaskWake(a, i)
    \/ Tick
SpecLive == Init /\ [][NextLive]_vars /\ Scheduling

\* The device is eligible for an attempt and connection_tasks has no entry
\* for its address, as disable_device leaves it (172-173).
Resumed(a) == Eligible(a) /\ connection_tasks[a] = NoTask

\* C34: a device that was disabled and enabled again while the manager
\* runs, and is eligible for an attempt, is eventually attempted (or stops
\* being eligible through a later call).
C34_ResumesAfterEnable ==
    \A a \in Addresses : Resumed(a) ~> (InFlight(a) > 0 \/ ~Eligible(a))

\* The device is Connecting while the manager runs and it is enabled.
StuckConnecting(a) ==
    /\ running
    /\ Managed(a)
    /\ Rec(a).is_enabled
    /\ Rec(a).state = "connecting"

\* C35: a device that is Connecting while the manager runs and the device
\* is enabled eventually leaves Connecting (or the manager is stopped or
\* the device disabled again), also after its attempt was cancelled.
C35_LeavesConnecting ==
    \A a \in Addresses : StuckConnecting(a) ~> ~StuckConnecting(a)

\* C36: in every reachable state the record a task of a managed address
\* read at 209 is the record managed_connections holds for the address.
C36_TaskOnCurrentRecord ==
    \A a \in Addresses : \A i \in TaskIdx(a) :
        (Managed(a) /\ TaskAt(a, i).conn # NoRec) =>
            TaskAt(a, i).conn = managed_connections[a]

\* NextRemoved: one subscriber registers; an address is added while it is
\* not managed and removed again, start is called any number of times; the
\* tasks run and time passes.
NextRemoved ==
    \/ event_callbacks = <<>> /\ RegisterEventCallback("returns")
    \/ \E a \in Addresses :
          managed_connections[a] = NoRec /\ AddManagedDevice(a, NoConfig, MaxObjects + 1)
    \/ \E a \in Addresses : managed_connections[a] # NoRec /\ RemoveManagedDevice(a)
    \/ Start(MaxObjects + 1, FALSE)
    \/ \E a \in Addresses : \E i \in TaskIdx(a) : TaskRun(a, i)
    \/ \E a \in Addresses : \E i \in TaskIdx(a), o \in Outcomes :
          ConnectCompletes(a, i, o)
    \/ \E a \in Addresses : \E i \in TaskIdx(a) : TaskWake(a, i)
    \/ Tick
SpecRemoved == Init /\ [][NextRemoved]_vars

\* C37: a step that begins and ends with the address not managed begins
\* no attempt for the address and calls no subscriber with an event of the
\* address.
C37_SilentAfterRemove ==
    [][\A a \in Addresses :
          (~Managed(a) /\ ~Managed(a)') =>
              /\ InFlight(a)' <= InFlight(a)
              /\ \A k \in Subscribers : \A n \in 1..Len(received'[k]) :
                    received'[k][n].address # a]_vars

\* C38: in every reachable state a managed connection that is Connected
\* has retry_count 0 and last_activity set.
C38_ConnectedIsFresh ==
    \A a \in Addresses :
        (Managed(a) /\ Rec(a).state = "connected") =>
            /\ Rec(a).retry_count = 0
            /\ Rec(a).last_activity # None

\* A device that failed once and never connected by an attempt is
\* Connected through a Connection packet.
C38_Witness ==
    \E a \in Addresses :
        /\ Managed(a)
        /\ Rec(a).state = "connected"
        /\ Rec(a).failed_connections = 1
        /\ Rec(a).successful_connections = 0

\* The counters of ConnectionMetrics that update_metrics maintains.
Counters(c) == <<c.total_attempts, c.successful_connections,
                 c.failed_connections, c.consecutive_failures>>

\* C39: a packet for an address that is not managed changes nothing and
\* calls no subscriber; a packet for a managed address leaves the four
\* counters of its connection as they were, replaces no record and calls
\* no subscriber; a packet that is neither a connection nor a
\* disconnection changes nothing but last_activity.
C39_RadioEventFrame ==
    [][\A a \in DOMAIN managed_connections : \A p \in PacketTypes :
          OnBleEvent(a, p) =>
              /\ \A k \in Subscribers : received'[k] = <<>>
              /\ UNCHANGED <<running, managed_connections, orphans,
                             stability_monitor_task, stability_orphans,
                             event_callbacks>>
              /\ IF ~Managed(a)
                 THEN UNCHANGED <<heap, connection_tasks>>
                 ELSE /\ Counters(Rec(a)') = Counters(Rec(a))
                      /\ \A r \in DOMAIN heap \ {managed_connections[a]} :
                            r \in DOMAIN heap' /\ heap'[r] = heap[r]
                      /\ p \notin {"connection", "disconnection"} =>
                            /\ [Rec(a)' EXCEPT !.last_activity = None]
                                  = [Rec(a) EXCEPT !.last_activity = None]
                            /\ UNCHANGED connection_tasks]_vars

\* A packet has just arrived for a device that failed once: it is still
\* Failed with its counters, and last_activity is now.
C39_Witness ==
    \E a \in Addresses :
        /\ Managed(a)
        /\ Rec(a).state = "failed"
        /\ Rec(a).failed_connections = 1
        /\ Rec(a).consecutive_failures = 1
        /\ Rec(a).last_activity = 0

\* NextCalls: one subscriber registers; the manager is started once; a
\* device is added while its address is not managed; remove, enable,
\* disable and pause are called at any time, for a managed address or not;
\* the tasks run and time passes.
NextCalls ==
    \/ event_callbacks = <<>> /\ RegisterEventCallback("returns")
    \/ \E a \in Addresses, cfg \in Configs :
          managed_connections[a] = NoRec /\ AddManagedDevice(a, cfg, MaxObjects)
    \/ \E a \in Addresses : RemoveManagedDevice(a)
    \/ \E a \in Addresses : EnableDevice(a)
    \/ \E a \in Addresses : DisableDevice(a)
    \/ \E a \in Addresses, d \in PauseDurations : PauseDevice(a, d)
    \/ ~running /\ Start(MaxObjects, FALSE)
    \/ \E a \in Addresses : \E i \in TaskIdx(a) : TaskRun(a, i)
    \/ \E a \in Addresses : \E i \in TaskIdx(a), o \in Outcomes :
          ConnectCompletes(a, i, o)
    \/ \E a \in Addresses : \E i \in TaskIdx(a) : TaskWake(a, i)
    \/ Tick
SpecCalls == Init /\ [][NextCalls]_vars

\* The step leaves every record but that of address a, and everything
\* that is not a record, as it was.
OnlyRecordOf(a) ==
    /\ UNCHANGED <<running, managed_connections, connection_tasks, orphans,
                   stability_monitor_task, stability_orphans, event_callbacks>>
    /\ DOMAIN heap' = DOMAIN heap
    /\ \A r \in DOMAIN heap \ {managed_connections[a]} : heap'[r] = heap[r]

\* C40: remove, enable, disable and pause for an address that is not
\* managed change nothing and call no subscriber; enable_device for a
\* managed address changes is_enabled of its record and nothing else;
\* pause_device changes state and pause_until of its record and nothing
\* else.
C40_CallFrame ==
    [][\A a \in DOMAIN managed_connections :
          /\ (/\ ~Managed(a)
              /\ \/ RemoveManagedDevice(a)
                 \/ EnableDevice(a)
                 \/ DisableDevice(a)
                 \/ \E d \in PauseDurations : PauseDevice(a, d)) =>
                /\ UNCHANGED <<running, managed_connections, heap,
                               connection_tasks, orphans, stability_monitor_task,
                               stability_orphans, event_callbacks>>
                /\ \A k \in Subscribers : received'[k] = <<>>
          /\ (Managed(a) /\ EnableDevice(a)) =>
                /\ OnlyRecordOf(a)
                /\ Rec(a)' = [Rec(a) EXCEPT !.is_enabled = TRUE]
          /\ \A d \in PauseDurations :
                (Managed(a) /\ PauseDevice(a, d)) =>
                    /\ OnlyRecordOf(a)
                    /\ Rec(a)'.state = "paused"
                    /\ Rec(a)'.pause_until = d
                    /\ Rec(a)'.last_activity = None <=> Rec(a).last_activity = None
                    /\ [Rec(a)' EXCEPT !.state = "paused", !.pause_until = None,
                                       !.last_activity = None]
                          = [Rec(a) EXCEPT !.state = "paused", !.pause_until = None,
                                           !.last_activity = None]]_vars

\* A device that failed once has just been paused for a second: its
\* retry_count and counters are those of the failure.
C40_Witness ==
    \E a \in Addresses :
        /\ Managed(a)
        /\ Rec(a).state = "paused"
        /\ Rec(a).pause_until = 1
        /\ Rec(a).retry_count = 1
        /\ Rec(a).failed_connections = 1
        /\ Rec(a).consecutive_failures = 1

====
